---------------------------- MODULE Spec2Model ----------------------------
(***************************************************************************)
(* Model of the capital-trading-bot order relay.                           *)
(*                                                                         *)
(*   main.py  FastAPI  POST /trade   : receive_alert -> place_order ->     *)
(*                                     get_session_data                    *)
(*   app.py   Flask    POST /webhook : tradingview_webhook ->              *)
(*                                     get_capital_session_tokens ->       *)
(*                                     place_capital_order                 *)
(*                                                                         *)
(* A request is a small process: it runs local code up to its next         *)
(* outbound network call, waits for the broker, and continues.  The broker *)
(* is the environment: it answers every call with any outcome it can       *)
(* produce.  Every outbound call is appended to the request's call log     *)
(* (the test double of the spec).                                          *)
(*                                                                         *)
(* Strings the code inspects character by character (symbol, action, size, *)
(* epic) are sequences of one-character strings.  Sizes are Python floats; *)
(* finite ones are kept in thousandths (0.02 is 20), NaN is kept apart.    *)
(* Texts the code only tests for a few substrings (broker bodies, error    *)
(* messages) are kept as a label plus the outcome of each of those tests.  *)
(***************************************************************************)
EXTENDS Integers, Sequences, FiniteSets, TLC

(***************************************************************************)
(* Bounds                                                                  *)
(***************************************************************************)
\* request slots that can be in flight at once
NumReqs == 2
\* alerts received over a run
MaxAlerts == 2

Reqs == 1..NumReqs

(***************************************************************************)
(* Python str: upper(), lower(), `in`                                      *)
(***************************************************************************)
LowerAlpha ==
  << "a","b","c","d","e","f","g","h","i","j","k","l","m",
     "n","o","p","q","r","s","t","u","v","w","x","y","z" >>

UpperAlpha ==
  << "A","B","C","D","E","F","G","H","I","J","K","L","M",
     "N","O","P","Q","R","S","T","U","V","W","X","Y","Z" >>

UpperChar(c) ==
  IF \E i \in 1..26 : LowerAlpha[i] = c
  THEN UpperAlpha[CHOOSE i \in 1..26 : LowerAlpha[i] = c]
  ELSE c

LowerChar(c) ==
  IF \E i \in 1..26 : UpperAlpha[i] = c
  THEN LowerAlpha[CHOOSE i \in 1..26 : UpperAlpha[i] = c]
  ELSE c


\* Upper that leaves the string as it is
Upper_Identity(s) == s

Upper(s) == [i \in 1..Len(s) |-> UpperChar(s[i])]

Lower(s) == [i \in 1..Len(s) |-> LowerChar(s[i])]

\* Python `sub in s` for two strings
Contains(sub, s) ==
  \E i \in 0..(Len(s) - Len(sub)) : SubSeq(s, i + 1, i + Len(sub)) = sub

(***************************************************************************)
(* Python float                                                            *)
(***************************************************************************)
Fin(m) == [k |-> "fin", m |-> m]

NaN == [k |-> "nan", m |-> 0]

\* f <= 0 : every comparison with NaN is False
FloatLeZero(f) == f.k = "fin" /\ f.m <= 0

\* bool(f) : only 0.0 is falsy
FloatTruthy(f) == f.k = "nan" \/ f.m # 0

Digits == << "0","1","2","3","4","5","6","7","8","9" >>

IsDigit(c) == \E i \in 1..10 : Digits[i] = c

DigitVal(c) == (CHOOSE i \in 1..10 : Digits[i] = c) - 1

RECURSIVE DigitsVal(_)
DigitsVal(s) ==
  IF s = << >> THEN 0
  ELSE 10 * DigitsVal(SubSeq(s, 1, Len(s) - 1)) + DigitVal(s[Len(s)])

AllDigits(s) == \A i \in 1..Len(s) : IsDigit(s[i])

\* thousandths held by the fraction digits (at most three are written here)
FracVal(s) ==
  IF Len(s) = 0 THEN 0
  ELSE IF Len(s) = 1 THEN 100 * DigitsVal(s)
  ELSE IF Len(s) = 2 THEN 10 * DigitsVal(s)
  ELSE DigitsVal(SubSeq(s, 1, 3))

DotAt(s) == IF \E i \in 1..Len(s) : s[i] = "." THEN CHOOSE i \in 1..Len(s) : s[i] = "." ELSE 0

\* float(s) for an unsigned decimal literal: digits [ "." digits ]
ParseUnsigned(s) ==
  LET d  == DotAt(s)
      ip == IF d = 0 THEN s ELSE SubSeq(s, 1, d - 1)
      fp == IF d = 0 THEN << >> ELSE SubSeq(s, d + 1, Len(s))
  IN  IF Len(ip) + Len(fp) > 0 /\ AllDigits(ip) /\ AllDigits(fp)
      THEN [ok |-> TRUE, v |-> Fin(1000 * DigitsVal(ip) + FracVal(fp))]
      ELSE [ok |-> FALSE, v |-> NaN]

\* float(s) for a str: ok = FALSE is ValueError
ParseFloat(s) ==
  IF Lower(s) = << "n","a","n" >> THEN [ok |-> TRUE, v |-> NaN]
  ELSE IF Len(s) > 0 /\ s[1] = "-"
       THEN LET p == ParseUnsigned(Tail(s))
            IN  IF p.ok THEN [ok |-> TRUE, v |-> Fin(0 - p.v.m)] ELSE p
       ELSE IF Len(s) > 0 /\ s[1] = "+" THEN ParseUnsigned(Tail(s))
       ELSE ParseUnsigned(s)

(***************************************************************************)
(* String literals of the source and of the alerts, as character sequences *)
(***************************************************************************)
S_XAUUSD == << "X","A","U","U","S","D" >>

S_xauusd == << "x","a","u","u","s","d" >>

S_XAGUSD == << "X","A","G","U","S","D" >>

S_EURUSD == << "E","U","R","U","S","D" >>

S_EurUsd == << "E","u","r","U","s","d" >>

S_BTCUSD == << "B","T","C","U","S","D" >>

S_NATURALGAS == << "N","A","T","U","R","A","L","G","A","S" >>

S_XNGUSD == << "X","N","G","U","S","D" >>

S_UNKNOWN == << "U","N","K","N","O","W","N" >>

S_GOLD == << "G","O","L","D" >>

S_SILVER == << "S","I","L","V","E","R" >>

S_PLACEHOLDER == << "P","L","A","C","E","H","O","L","D","E","R" >>

S_PLACEHOLDER_FIND_NATGAS_EPIC == << "P","L","A","C","E","H","O","L","D","E","R","_","F","I","N","D","_","N","A","T","G","A","S","_","E","P","I","C" >>

S_buy == << "b","u","y" >>

S_sell == << "s","e","l","l" >>

S_Buy == << "B","u","y" >>

S_SELL == << "S","E","L","L" >>

S_BUY == << "B","U","Y" >>

S_hold == << "h","o","l","d" >>

S_1 == << "1" >>

S_0_5 == << "0",".","5" >>

S_abc == << "a","b","c" >>

S_nan == << "n","a","n" >>

(***************************************************************************)
(* JSON values of an alert field, as Python sees them after json()         *)
(***************************************************************************)
\* the key is not in the object
JAbsent == [t |-> "absent", s |-> << >>, f |-> Fin(0)]

JNull == [t |-> "null", s |-> << >>, f |-> Fin(0)]

JNum(f) == [t |-> "num", s |-> << >>, f |-> f]

JStr(s) == [t |-> "str", s |-> s, f |-> Fin(0)]

\* dict.get(key): an absent key reads as None
JGet(v) == IF v.t = "absent" THEN JNull ELSE v

\* dict.get(key, default)
JGetDefault(v, d) == IF v.t = "absent" THEN d ELSE v

\* bool(v)
JTruthy(v) ==
  CASE v.t = "str" -> v.s # << >>
    [] v.t = "num" -> FloatTruthy(v.f)
    [] OTHER       -> FALSE

\* float(v): ok = FALSE is ValueError (str) or TypeError (None)
JFloat(v) ==
  CASE v.t = "str" -> ParseFloat(v.s)
    [] v.t = "num" -> [ok |-> TRUE, v |-> v.f]
    [] OTHER       -> [ok |-> FALSE, v |-> NaN]

(***************************************************************************)
(* Values handed to the caller and texts the code only searches            *)
(***************************************************************************)
\* the three errorCode texts receive_alert searches str(error_detail) for
Markers == {"market-closed", "insufficient-funds", "not-found.epic"}

\* a Python value: its type, a label naming it, the markers str(value)
\* contains, and the status code when it is the text "HTTP <code>"
Leaf(t, id, mk) == [t |-> t, id |-> id, mk |-> mk, code |-> 0]

\* a text written by the relay or by the requests library
Lit(id) == Leaf("str", id, {})

NoLeaf == Leaf("none", "", {})

\* f"HTTP {response.status_code}"
HttpText(code) == [t |-> "str", id |-> "HTTP", mk |-> {}, code |-> code]

\* a value with the parts `"error" in v`, v.get("error"), v.get("details") read
Val(t, id, mk, hasError, error, hasDetails, details) ==
  [t |-> t, id |-> id, mk |-> mk, hasError |-> hasError, error |-> error,
   hasDetails |-> hasDetails, details |-> details]

AsLeaf(v) == Leaf(v.t, v.id, v.mk)

\* {"error": e}
ErrDict(e) == Val("dict", "relay", {}, TRUE, e, FALSE, NoLeaf)

\* {"error": e, "details": d}
ErrDictDetails(e, d) == Val("dict", "relay", {}, TRUE, e, TRUE, d)

NoVal == Val("none", "", {}, FALSE, NoLeaf, FALSE, NoLeaf)

(***************************************************************************)
(* Responses to the caller                                                 *)
(***************************************************************************)
NoResponse == [kind |-> "none", status |-> 0, detail |-> NoLeaf]

\* raise HTTPException(status_code, detail): Starlette puts the status
\* phrase in place of a detail that is None
HTTPException(status, detail) ==
  [kind |-> "HTTPException", status |-> status,
   detail |-> IF detail.t = "none" THEN Lit("status phrase") ELSE detail]


\* Unhandled of a server that answers nothing when the handler raises
Unhandled_NoResponse == [kind |-> "none", status |-> 0, detail |-> NoLeaf]

\* an exception no handler catches: the framework answers 500
Unhandled == [kind |-> "unhandled", status |-> 500, detail |-> Lit("Internal Server Error")]

\* return {"status": "ok", "capital_response": result}
OkResponse(result) == [kind |-> "ok", status |-> 200, detail |-> AsLeaf(result)]

(***************************************************************************)
(* main.py: tables and pure helpers                                        *)
(***************************************************************************)
TickerKeys == {S_XAUUSD, S_XAGUSD, S_EURUSD, S_NATURALGAS, S_XNGUSD}

TICKER_TO_EPIC_INIT ==
  [k \in TickerKeys |->
     CASE k = S_XAUUSD     -> S_GOLD
       [] k = S_XAGUSD     -> S_SILVER
       [] k = S_EURUSD     -> S_EURUSD
       [] k = S_NATURALGAS -> S_PLACEHOLDER_FIND_NATGAS_EPIC
       [] k = S_XNGUSD     -> S_PLACEHOLDER_FIND_NATGAS_EPIC]

\* dict.get(key) on the table: << >> stands for None
TableGet(table, key) == IF key \in DOMAIN table THEN table[key] ELSE << >>


\* get_trade_size that tests EURUSD before XAUUSD
get_trade_size_EurFirst(symbol) ==
  LET symbol_upper == IF symbol # << >> THEN Upper(symbol) ELSE << >>
  IN  IF Contains(S_EURUSD, symbol_upper) THEN Fin(10000000)
      ELSE IF Contains(S_XAUUSD, symbol_upper) THEN Fin(20)
      ELSE IF Contains(S_XAGUSD, symbol_upper) THEN Fin(10000)
      ELSE IF Contains(S_BTCUSD, symbol_upper) THEN Fin(1)
      ELSE IF Contains(S_NATURALGAS, symbol_upper) \/ Contains(S_XNGUSD, symbol_upper)
           THEN Fin(100000)
      ELSE Fin(1000)

get_trade_size(symbol) ==
  LET symbol_upper == IF symbol # << >> THEN Upper(symbol) ELSE << >>
  IN  IF Contains(S_XAUUSD, symbol_upper) THEN Fin(20)
      ELSE IF Contains(S_XAGUSD, symbol_upper) THEN Fin(10000)
      ELSE IF Contains(S_EURUSD, symbol_upper) THEN Fin(10000000)
      ELSE IF Contains(S_BTCUSD, symbol_upper) THEN Fin(1)
      ELSE IF Contains(S_NATURALGAS, symbol_upper) \/ Contains(S_XNGUSD, symbol_upper)
           THEN Fin(100000)
      ELSE Fin(1000)

\* size_str = data_lower.get("size", "1")
SizeStr(alert) == JGetDefault(alert.size, JStr(S_1))


\* ResolveSize that falls back to 1.0 whatever the symbol
ResolveSize_DefaultOne(size_str, symbol) ==
  LET p == JFloat(size_str)
  IN  IF p.ok /\ ~FloatLeZero(p.v) THEN p.v ELSE Fin(1000)

\* the try/except around float(size_str)
ResolveSize(size_str, symbol) ==
  LET p == JFloat(size_str)
  IN  IF p.ok /\ ~FloatLeZero(p.v) THEN p.v ELSE get_trade_size(symbol)

\* direction.lower() not in ["buy", "sell"]
NotBuySell(s) == Lower(s) \notin {S_buy, S_sell}

\* receive_alert up to the call of place_order: either a response, or the
\* arguments of place_order
Rejected(resp) ==
  [go |-> FALSE, resp |-> resp, direction |-> << >>, epic |-> << >>, size |-> Fin(0)]

Accepted(direction, epic, size) ==
  [go |-> TRUE, resp |-> NoResponse, direction |-> direction, epic |-> epic, size |-> size]

ReceiveAlertLocal(alert, table) ==
  LET direction == JGet(alert.action)
      symbol    == JGet(alert.symbol)
      size_str  == SizeStr(alert)
      epic      == TableGet(table, Upper(symbol.s))
  IN  IF alert.top = "invalid"
        THEN Rejected(HTTPException(400, Lit("Invalid JSON received")))
      ELSE IF alert.top = "nonobject"      \* data.items(): AttributeError
        THEN Rejected(Unhandled)
      ELSE IF ~JTruthy(symbol)
        THEN Rejected(HTTPException(400, Lit("'symbol' missing from webhook data")))
      ELSE IF ~JTruthy(direction)
        THEN Rejected(HTTPException(400, Lit("Invalid action")))
      ELSE IF direction.t # "str"          \* direction.lower(): AttributeError
        THEN Rejected(Unhandled)
      ELSE IF NotBuySell(direction.s)
        THEN Rejected(HTTPException(400, Lit("Invalid action")))
      ELSE IF symbol.t # "str"             \* symbol.upper(): AttributeError
        THEN Rejected(Unhandled)
      ELSE IF epic = << >> \/ Contains(S_PLACEHOLDER, Upper(epic))
        THEN Rejected(HTTPException(400, Lit("Epic mapping not found/configured")))
      ELSE Accepted(direction.s, epic, ResolveSize(size_str, symbol.s))

(***************************************************************************)
(* The broker: what it can answer to the two calls                         *)
(***************************************************************************)
\* no answer yet
NoLogin == [kind |-> "none", status |-> 0, cst |-> 0, xsec |-> 0, body |-> "none"]

\* the tokens the broker hands out at its n-th login: a pair no other login gets
CstOf(n) == 2 * n - 1

XsecOf(n) == 2 * n

LoginStatuses == {200, 401, 500}

\* the JSON body of the login answer: an object with currentAccountId, an
\* object without it, a JSON value that is not an object, not JSON at all
LoginBodies == {"dict_acct", "dict_noacct", "nondict", "nonjson"}

\* a header the broker omits reads as None: 0 stands for it
LoginOutcomes(n) ==
  { [kind |-> "timeout", status |-> 0, cst |-> 0, xsec |-> 0, body |-> "none"],
    [kind |-> "connerr", status |-> 0, cst |-> 0, xsec |-> 0, body |-> "none"] }
  \cup
  { [kind |-> "resp", status |-> st, cst |-> c, xsec |-> x, body |-> b] :
      st \in LoginStatuses, c \in {0, CstOf(n)}, x \in {0, XsecOf(n)}, b \in LoginBodies }

\* bodies of the order answer that parse as JSON
B_deal == Val("dict", "deal", {}, FALSE, NoLeaf, FALSE, NoLeaf)

\* {"errorCode":"error.market.market-closed"}: str() of the parsed dict is
\* written with single quotes and a space, so it holds none of the markers
B_closed == Val("dict", "closed", {}, FALSE, NoLeaf, FALSE, NoLeaf)

B_err == Val("dict", "err", {}, TRUE, Lit("boom"), FALSE, NoLeaf)

B_errAuth == Val("dict", "errauth", {}, TRUE, Lit("Authentication Failed"), FALSE, NoLeaf)

B_errNum == Val("dict", "errnum", {}, TRUE, Leaf("num", "7", {}), FALSE, NoLeaf)

B_errDet == Val("dict", "errdet", {}, TRUE, Lit("boom"), TRUE, Leaf("str", "why", {"insufficient-funds"}))

B_list == Val("list", "list", {}, FALSE, NoLeaf, FALSE, NoLeaf)

B_listErr == Val("list", "listerr", {}, TRUE, NoLeaf, FALSE, NoLeaf)

B_str == Val("str", "str", {}, FALSE, NoLeaf, FALSE, NoLeaf)

\* a JSON string that quotes an errorCode pair
B_strMk == Val("str", "strmk", {"not-found.epic"}, TRUE, NoLeaf, FALSE, NoLeaf)

B_num == Val("num", "num", {}, FALSE, NoLeaf, FALSE, NoLeaf)

B_null == Val("none", "null", {}, FALSE, NoLeaf, FALSE, NoLeaf)

JsonBodies ==
  {B_deal, B_closed, B_err, B_errAuth, B_errNum, B_errDet,
   B_list, B_listErr, B_str, B_strMk, B_num, B_null}

\* bodies that do not parse as JSON: response.text
T_html == Val("str", "html", {}, FALSE, NoLeaf, FALSE, NoLeaf)

T_closed == Val("str", "rawclosed", {"market-closed"}, TRUE, NoLeaf, FALSE, NoLeaf)

T_empty == Val("str", "empty", {}, FALSE, NoLeaf, FALSE, NoLeaf)

TextBodies == {T_html, T_closed, T_empty}

OrderStatuses == {200, 400, 404, 500}

NoOrder == [kind |-> "none", status |-> 0, json |-> FALSE, body |-> NoVal]

OrderOutcomes ==
  { [kind |-> "timeout", status |-> 0, json |-> FALSE, body |-> NoVal],
    [kind |-> "connerr", status |-> 0, json |-> FALSE, body |-> NoVal] }
  \cup { [kind |-> "resp", status |-> st, json |-> TRUE, body |-> b] :
           st \in OrderStatuses, b \in JsonBodies }
  \cup { [kind |-> "resp", status |-> st, json |-> FALSE, body |-> b] :
           st \in OrderStatuses, b \in TextBodies }

(***************************************************************************)
(* main.py: get_session_data                                               *)
(***************************************************************************)
NoSession == [ok |-> FALSE, cst |-> 0, x_sec_token |-> 0, account_id |-> FALSE]

\* the guard before the login POST: all three credentials are set
Configured(email, pass, key) == email # "" /\ pass # "" /\ key # ""

\* SessionFromLogin without the check that all three items are present
SessionFromLogin_NoTokenCheck(o) ==
  IF o.kind # "resp" THEN NoSession
  ELSE IF o.status >= 400 THEN NoSession
  ELSE IF o.body = "nondict" THEN NoSession
  ELSE [ok |-> TRUE, cst |-> o.cst, x_sec_token |-> o.xsec, account_id |-> TRUE]

\* get_session_data from the answer of the login POST on; ok = FALSE is None
SessionFromLogin(o) ==
  IF o.kind # "resp" THEN NoSession                    \* RequestException
  ELSE IF o.status >= 400 THEN NoSession               \* raise_for_status
  ELSE IF o.body = "nondict" THEN NoSession            \* .get: AttributeError
  ELSE IF o.cst # 0 /\ o.xsec # 0 /\ o.body = "dict_acct"
       THEN [ok |-> TRUE, cst |-> o.cst, x_sec_token |-> o.xsec, account_id |-> TRUE]
       ELSE NoSession

(***************************************************************************)
(* main.py: place_order                                                    *)
(***************************************************************************)
AuthenticationFailed ==
  ErrDictDetails(Lit("Authentication Failed"), Lit("Could not obtain session tokens/accountId"))

\* the three checks before the payload is built: NoVal when they pass
ValidateOrder(direction, epic, size) ==
  IF direction = << >> \/ epic = << >> \/ ~FloatTruthy(size)
    THEN ErrDict(Lit("Missing order parameters"))
  ELSE IF NotBuySell(direction) THEN ErrDict(Lit("Invalid direction"))
  ELSE IF FloatLeZero(size) THEN ErrDict(Lit("Invalid size"))
  ELSE NoVal

NoHeaders == [api_key |-> "", CST |-> 0, XSEC |-> 0]

\* HeadersForOrder with the X-SECURITY-TOKEN line left out
HeadersForOrder_DropXsec(base, session) == [base EXCEPT !.CST = session.cst]

\* headers_for_order: a copy of BASE_HEADERS with the two session tokens
HeadersForOrder(base, session) ==
  [base EXCEPT !.CST = session.cst, !.XSEC = session.x_sec_token]

\* an outbound call as the test double records it
LoginCall(base) ==
  [ep |-> "session", headers |-> base, epic |-> << >>, direction |-> << >>, size |-> Fin(0)]

OrderCall(headers, direction, epic, size) ==
  [ep |-> "positions", headers |-> headers, epic |-> Upper(epic),
   direction |-> Upper(direction), size |-> size]


\* Serialisable of a JSON encoder that writes NaN
Serialisable_AllowNan(size) == TRUE

\* requests.post(json=...) serialises with allow_nan=False: a NaN size raises
\* InvalidJSONError, a RequestException, before anything is sent
Serialisable(size) == size.k = "fin"

RequestFailed == ErrDictDetails(Lit("Request failed"), Lit("str(req_err)"))

\* OrderResult that answers an HTTP error with a message of its own

\* OrderResult without raise_for_status
OrderResult_NoRaise(o) ==
  IF o.kind = "timeout" THEN ErrDict(Lit("Request Timeout"))
  ELSE IF o.kind = "connerr" THEN RequestFailed
  ELSE IF o.json THEN o.body
  ELSE RequestFailed

OrderResult_OwnMessage(o) ==
  IF o.kind = "timeout" THEN ErrDict(Lit("Request Timeout"))
  ELSE IF o.kind = "connerr" THEN RequestFailed
  ELSE IF o.status >= 400
    THEN ErrDictDetails(HttpText(o.status), Lit("order rejected"))
  ELSE IF o.json THEN o.body
  ELSE RequestFailed

\* place_order from the answer of the order POST on
OrderResult(o) ==
  IF o.kind = "timeout" THEN ErrDict(Lit("Request Timeout"))
  ELSE IF o.kind = "connerr" THEN RequestFailed
  ELSE IF o.status >= 400                              \* raise_for_status
    THEN ErrDictDetails(HttpText(o.status), AsLeaf(o.body))
  ELSE IF o.json THEN o.body                           \* return response.json()
  ELSE RequestFailed                                   \* requests JSONDecodeError

(***************************************************************************)
(* main.py: receive_alert after place_order returned                       *)
(***************************************************************************)
\* str(x)
Str(x) == Leaf("str", x.id, x.mk)


\* StatusFor without the "Authentication Failed" line
StatusFor_No503(result, error_detail) ==
  LET e == result.error
  IN  IF "market-closed" \in error_detail.mk THEN 400
      ELSE IF "insufficient-funds" \in error_detail.mk THEN 400
      ELSE IF "not-found.epic" \in error_detail.mk THEN 400
      ELSE IF e.id = "HTTP" /\ e.code = 404 THEN 404
      ELSE IF e.id = "HTTP" /\ e.code \div 100 = 4 THEN 400
      ELSE IF e.id = "Request Timeout" THEN 504
      ELSE IF e.id = "Request failed" THEN 502
      ELSE 500

\* StatusFor without the "Request Timeout" line
StatusFor_NoTimeout(result, error_detail) ==
  LET e == result.error
  IN  IF e.t = "str" /\ e.id = "Authentication Failed" THEN 503
      ELSE IF "market-closed" \in error_detail.mk THEN 400
      ELSE IF "insufficient-funds" \in error_detail.mk THEN 400
      ELSE IF "not-found.epic" \in error_detail.mk THEN 400
      ELSE IF e.id = "HTTP" /\ e.code = 404 THEN 404
      ELSE IF e.id = "HTTP" /\ e.code \div 100 = 4 THEN 400
      ELSE IF e.id = "Request failed" THEN 502
      ELSE 500

StatusFor(result, error_detail) ==
  LET e == result.error
  IN  IF e.t = "str" /\ e.id = "Authentication Failed" THEN 503
      ELSE IF "market-closed" \in error_detail.mk THEN 400
      ELSE IF "insufficient-funds" \in error_detail.mk THEN 400
      ELSE IF "not-found.epic" \in error_detail.mk THEN 400
      ELSE IF e.id = "HTTP" /\ e.code = 404 THEN 404
      ELSE IF e.id = "HTTP" /\ e.code \div 100 = 4 THEN 400
      ELSE IF e.id = "Request Timeout" THEN 504
      ELSE IF e.id = "Request failed" THEN 502
      ELSE 500

TranslateResult(result) ==
  IF result.t \notin {"dict", "list", "str"} THEN Unhandled   \* `in`: TypeError
  ELSE IF ~result.hasError THEN OkResponse(result)
  ELSE IF result.t # "dict" THEN Unhandled                    \* .get: AttributeError
  ELSE LET error_detail ==
             IF result.hasDetails THEN result.details ELSE Str(result.error)
       IN  IF result.error.t # "str"
              /\ error_detail.mk = {}                         \* .startswith: AttributeError
           THEN Unhandled
           ELSE HTTPException(StatusFor(result, error_detail), error_detail)

(***************************************************************************)
(* State                                                                   *)
(***************************************************************************)
VARIABLES
  program,          \* which of the two servers runs: "main" or "app"
  CAPITAL_EMAIL,    \* main.py globals, "" when the variable is unset
  CAPITAL_PASS,
  CAPITAL_API_KEY,
  BASE_HEADERS,
  TICKER_TO_EPIC,
  app_env,          \* app.py globals, "" when the variable is unset
  pc,               \* per request: where its handler stands
  alert,            \* per request: the inbound body
  loc,              \* per request: the handler's locals
  calls,            \* per request: the outbound calls it made, in order
  resp,             \* per request: the response the caller got
  nAlerts,          \* alerts received so far
  broker            \* calls the broker received so far

gvars ==
  << program, CAPITAL_EMAIL, CAPITAL_PASS, CAPITAL_API_KEY, BASE_HEADERS, TICKER_TO_EPIC, app_env >>

vars == << program, CAPITAL_EMAIL, CAPITAL_PASS, CAPITAL_API_KEY, BASE_HEADERS, TICKER_TO_EPIC,
           app_env, pc, alert, loc, calls, resp, nAlerts, broker >>

NoAlert ==
  [top |-> "none", symbol |-> JAbsent, action |-> JAbsent, size |-> JAbsent,
   quantity |-> JAbsent, secret_key |-> JAbsent]

NoLocals ==
  [via |-> "none", direction |-> << >>, epic |-> << >>, size |-> Fin(0), loginNo |-> 0,
   login |-> NoLogin, session |-> NoSession, order |-> NoOrder, result |-> NoVal]

\* BASE_HEADERS as the module builds it at import
BaseHeadersOf(key) ==
  [api_key |-> IF key # "" THEN key ELSE "MISSING_API_KEY", CST |-> 0, XSEC |-> 0]

\* the alerts a caller can post to /trade
SymbolValues ==
  {JAbsent, JNum(Fin(5000)), JStr(<< >>), JStr(S_XAUUSD), JStr(S_xauusd), JStr(S_XAGUSD),
   JStr(S_EurUsd), JStr(S_NATURALGAS), JStr(S_UNKNOWN)}

ActionValues == {JAbsent, JNum(Fin(5000)), JStr(S_buy), JStr(S_SELL), JStr(S_hold)}

SizeValues ==
  {JAbsent, JNull, JNum(Fin(2000)), JNum(Fin(0)), JNum(Fin(-1000)),
   JStr(S_0_5), JStr(S_abc), JStr(S_nan)}

Alerts ==
  { [NoAlert EXCEPT !.top = "object", !.symbol = s, !.action = a, !.size = z] :
      s \in SymbolValues, a \in ActionValues, z \in SizeValues }
  \cup { [NoAlert EXCEPT !.top = "invalid"], [NoAlert EXCEPT !.top = "nonobject"] }

(***************************************************************************)
(* main.py: the steps of a /trade request                                  *)
(***************************************************************************)
\* what the caller of place_order makes of its return value
Deliver(via, result) ==
  IF via = "trade" THEN TranslateResult(result)
  ELSE [kind |-> "return", status |-> 0, detail |-> AsLeaf(result)]

\* place_order returns result without a further network call
Return(r, l, result) ==
  /\ pc' = [pc EXCEPT ![r] = "done"]
  /\ loc' = [loc EXCEPT ![r] = [l EXCEPT !.result = result]]
  /\ resp' = [resp EXCEPT ![r] = Deliver(l.via, result)]


\* BaseHeadersAfterOrder without the .copy(): the tokens land in the global
BaseHeadersAfterOrder_NoCopy(base, headers_for_order) == headers_for_order

\* .copy(): the two tokens are written to the copy, the global keeps its value
BaseHeadersAfterOrder(base, headers_for_order) == base


\* PlaceOrderCall that drops an order already asked for by another request
PlaceOrderCall_Dedup(r, l) ==
  IF ~Configured(CAPITAL_EMAIL, CAPITAL_PASS, CAPITAL_API_KEY)
  THEN /\ Return(r, l, AuthenticationFailed)
       /\ UNCHANGED << calls, broker >>
  ELSE IF \E q \in Reqs \ {r} : /\ pc[q] # "idle"
                                /\ loc[q].direction = l.direction
                                /\ loc[q].epic = l.epic
                                /\ loc[q].size = l.size
  THEN /\ Return(r, l, RequestFailed)
       /\ UNCHANGED << calls, broker >>
  ELSE /\ pc' = [pc EXCEPT ![r] = "login"]
       /\ loc' = [loc EXCEPT ![r] = [l EXCEPT !.loginNo = broker.logins + 1]]
       /\ calls' = [calls EXCEPT ![r] = Append(@, LoginCall(BASE_HEADERS))]
       /\ broker' = [broker EXCEPT !.logins = @ + 1]
       /\ UNCHANGED resp

\* place_order from its first line to the login POST
PlaceOrderCall(r, l) ==
  IF ~Configured(CAPITAL_EMAIL, CAPITAL_PASS, CAPITAL_API_KEY)
  THEN /\ Return(r, l, AuthenticationFailed)
       /\ UNCHANGED << calls, broker >>
  ELSE /\ pc' = [pc EXCEPT ![r] = "login"]
       /\ loc' = [loc EXCEPT ![r] = [l EXCEPT !.loginNo = broker.logins + 1]]
       /\ calls' = [calls EXCEPT ![r] = Append(@, LoginCall(BASE_HEADERS))]
       /\ broker' = [broker EXCEPT !.logins = @ + 1]
       /\ UNCHANGED resp

\* POST /trade arrives: receive_alert runs to its first network call or to
\* its response
ReceiveAlert(r, A) ==
  /\ program = "main"
  /\ pc[r] = "idle"
  /\ nAlerts < MaxAlerts
  /\ \E a \in A :
       LET p == ReceiveAlertLocal(a, TICKER_TO_EPIC)
           l == [NoLocals EXCEPT !.via = "trade", !.direction = p.direction,
                                 !.epic = p.epic, !.size = p.size]
       IN  /\ alert' = [alert EXCEPT ![r] = a]
           /\ nAlerts' = nAlerts + 1
           /\ IF p.go
              THEN PlaceOrderCall(r, l)
              ELSE /\ pc' = [pc EXCEPT ![r] = "done"]
                   /\ loc' = [loc EXCEPT ![r] = l]
                   /\ resp' = [resp EXCEPT ![r] = p.resp]
                   /\ UNCHANGED << calls, broker >>
  /\ UNCHANGED gvars


\* LoginReturns that sends the login POST again when the session is not obtained
LoginReturns_Retry(r, O) ==
  /\ pc[r] = "login"
  /\ \E o \in O :
       LET s == SessionFromLogin(o)
           l == [loc[r] EXCEPT !.login = o, !.session = s]
           v == ValidateOrder(l.direction, l.epic, l.size)
           h == HeadersForOrder(BASE_HEADERS, s)
       IN  IF ~s.ok
             THEN /\ calls' = [calls EXCEPT ![r] = Append(@, LoginCall(BASE_HEADERS))]
                  /\ broker' = [broker EXCEPT !.logins = @ + 1]
                  /\ loc' = [loc EXCEPT ![r] = [l EXCEPT !.loginNo = broker.logins + 1]]
                  /\ UNCHANGED << pc, resp, BASE_HEADERS >>
           ELSE IF v # NoVal
             THEN Return(r, l, v) /\ UNCHANGED << calls, broker, BASE_HEADERS >>
           ELSE IF ~Serialisable(l.size)
             THEN /\ Return(r, l, RequestFailed)
                  /\ BASE_HEADERS' = BaseHeadersAfterOrder(BASE_HEADERS, h)
                  /\ UNCHANGED << calls, broker >>
           ELSE /\ pc' = [pc EXCEPT ![r] = "order"]
                /\ loc' = [loc EXCEPT ![r] = l]
                /\ calls' = [calls EXCEPT ![r] = Append(@, OrderCall(h, l.direction, l.epic, l.size))]
                /\ broker' = [broker EXCEPT !.orders = @ + 1]
                /\ BASE_HEADERS' = BaseHeadersAfterOrder(BASE_HEADERS, h)
                /\ UNCHANGED resp
  /\ UNCHANGED << program, CAPITAL_EMAIL, CAPITAL_PASS, CAPITAL_API_KEY, TICKER_TO_EPIC,
                  app_env, alert, nAlerts >>

\* the login POST is answered: get_session_data finishes, place_order runs to
\* the order POST or to its return
LoginReturns(r, O) ==
  /\ pc[r] = "login"
  /\ \E o \in O :
       LET s == SessionFromLogin(o)
           l == [loc[r] EXCEPT !.login = o, !.session = s]
           v == ValidateOrder(l.direction, l.epic, l.size)
           h == HeadersForOrder(BASE_HEADERS, s)
       IN  IF ~s.ok
             THEN Return(r, l, AuthenticationFailed)
                  /\ UNCHANGED << calls, broker, BASE_HEADERS >>
           ELSE IF v # NoVal
             THEN Return(r, l, v) /\ UNCHANGED << calls, broker, BASE_HEADERS >>
           ELSE IF ~Serialisable(l.size)
             THEN /\ Return(r, l, RequestFailed)
                  /\ BASE_HEADERS' = BaseHeadersAfterOrder(BASE_HEADERS, h)
                  /\ UNCHANGED << calls, broker >>
           ELSE /\ pc' = [pc EXCEPT ![r] = "order"]
                /\ loc' = [loc EXCEPT ![r] = l]
                /\ calls' = [calls EXCEPT ![r] = Append(@, OrderCall(h, l.direction, l.epic, l.size))]
                /\ broker' = [broker EXCEPT !.orders = @ + 1]
                /\ BASE_HEADERS' = BaseHeadersAfterOrder(BASE_HEADERS, h)
                /\ UNCHANGED resp
  /\ UNCHANGED << program, CAPITAL_EMAIL, CAPITAL_PASS, CAPITAL_API_KEY, TICKER_TO_EPIC,
                  app_env, alert, nAlerts >>

\* the order POST is answered: place_order returns, receive_alert responds
OrderReturns(r, O) ==
  /\ pc[r] = "order"
  /\ \E o \in O :
       Return(r, [loc[r] EXCEPT !.order = o], OrderResult(o))
  /\ UNCHANGED << gvars, alert, calls, nAlerts, broker >>

\* the handler has returned: its locals are gone, the slot takes the next request
Finish(r) ==
  /\ pc[r] = "done"
  /\ pc' = [pc EXCEPT ![r] = "idle"]
  /\ alert' = [alert EXCEPT ![r] = NoAlert]
  /\ loc' = [loc EXCEPT ![r] = NoLocals]
  /\ calls' = [calls EXCEPT ![r] = << >>]
  /\ resp' = [resp EXCEPT ![r] = NoResponse]
  /\ UNCHANGED << gvars, nAlerts, broker >>

(***************************************************************************)
(* app.py: pure helpers                                                    *)
(***************************************************************************)
S_secret == << "s","3","c","r","e","t" >>

S_wrong == << "w","r","o","n","g" >>

\* abort(status): werkzeug raises an HTTPException
Abort(status, description) == [kind |-> "abort", status |-> status, detail |-> Lit(description)]

\* return jsonify({"status": ..., "message": ..., "details": ...}), status
JsonResponse(kind, status, message, details) ==
  [kind |-> kind, status |-> status,
   detail |-> IF details.t = "none" /\ details.id = "" THEN Lit(message) ELSE details]

\* the handler's `except Exception` around the secret check catches the
\* HTTPException an abort() inside the try raises, and aborts with 400
AbortInsideTry(status, description) ==
  Abort(400, "Invalid JSON or secret key check failed")

WebhookRejected(response) == [go |-> FALSE, resp |-> response]

WebhookAccepted == [go |-> TRUE, resp |-> NoResponse]

\* tradingview_webhook up to the call of get_capital_session_tokens
WebhookLocal(a, secret) ==
  IF secret # << >>
  THEN IF a.top = "invalid"              \* get_json raises inside the try
         THEN WebhookRejected(AbortInsideTry(400, "Bad Request"))
       ELSE IF a.top = "empty"
         THEN WebhookRejected(AbortInsideTry(400, "Empty request body."))
       ELSE IF JGet(a.secret_key) # JStr(secret)
         THEN WebhookRejected(AbortInsideTry(403, "Invalid secret key."))
       ELSE IF a.symbol.t = "absent" \/ a.action.t = "absent" \/ a.quantity.t = "absent"
         THEN WebhookRejected(JsonResponse("error", 400, "Missing required fields in signal", NoLeaf))
       ELSE WebhookAccepted
  ELSE IF a.top = "invalid"
         THEN WebhookRejected(Abort(400, "Bad Request"))
       ELSE IF a.top = "empty"
         THEN WebhookRejected(Abort(400, "Empty request body."))
       ELSE IF a.symbol.t = "absent" \/ a.action.t = "absent" \/ a.quantity.t = "absent"
         THEN WebhookRejected(JsonResponse("error", 400, "Missing required fields in signal", NoLeaf))
       ELSE WebhookAccepted

\* the guard before the login POST of get_capital_session_tokens
AppConfigured(env) ==
  env.CAPITAL_API_KEY # "" /\ env.CAPITAL_PASSWORD # "" /\ env.CAPITAL_API_ENDPOINT # ""

\* get_capital_session_tokens from the answer of the login POST on;
\* ok = FALSE is (None, None)
TokensFromLogin(o) ==
  IF o.kind # "resp" THEN NoSession                    \* RequestException
  ELSE IF o.status >= 400 THEN NoSession               \* raise_for_status
  ELSE IF o.cst = 0 \/ o.xsec = 0 THEN NoSession
  ELSE [ok |-> TRUE, cst |-> o.cst, x_sec_token |-> o.xsec, account_id |-> FALSE]

AppAuthFailed ==
  JsonResponse("error", 500, "Capital.com authentication failed", NoLeaf)

\* the payload place_capital_order builds; ok = FALSE is an exception in the try
AppPayload(a) ==
  LET action == JGetDefault(a.action, JStr(<< >>))
      q      == JFloat(JGet(a.quantity))
  IN  IF action.t # "str" \/ ~q.ok                     \* .lower() / float() raise
      THEN [ok |-> FALSE, direction |-> << >>, epic |-> << >>, size |-> Fin(0)]
      ELSE [ok |-> TRUE,
            direction |-> IF Lower(action.s) = S_buy THEN S_BUY ELSE S_SELL,
            epic |-> JGet(a.symbol).s,
            size |-> q.v]

AppLoginCall == [ep |-> "session", headers |-> NoHeaders, epic |-> << >>, direction |-> << >>, size |-> Fin(0)]

AppOrderCall(session, p) ==
  [ep |-> "positions/otc",
   headers |-> [NoHeaders EXCEPT !.CST = session.cst, !.XSEC = session.x_sec_token],
   epic |-> p.epic, direction |-> p.direction, size |-> p.size]

\* place_capital_order from the answer of the order POST on: (success, result)
AppOrderResult(o) ==
  IF o.kind # "resp" THEN [success |-> FALSE, result |-> ErrDict(Lit("str(e)"))]
  ELSE IF o.status >= 400
    THEN IF o.json
         THEN [success |-> FALSE, result |-> o.body]
         ELSE [success |-> FALSE,
               result |-> ErrDictDetails(Lit("API Error"), AsLeaf(o.body))]
  ELSE IF o.json THEN [success |-> TRUE, result |-> o.body]
  ELSE [success |-> FALSE, result |-> ErrDict(Lit("str(e)"))]   \* requests JSONDecodeError

AppRespond(s) ==
  IF s.success
  THEN JsonResponse("success", 200, "Trade signal processed", AsLeaf(s.result))
  ELSE JsonResponse("error", 500, "Failed to place Capital.com order", AsLeaf(s.result))

(***************************************************************************)
(* app.py: the steps of a /webhook request                                 *)
(***************************************************************************)
SecretValues == {JAbsent, JStr(S_secret), JStr(S_wrong)}

WebhookSymbols == {JAbsent, JStr(S_XAUUSD)}

WebhookActions == {JAbsent, JNull, JNum(Fin(5000)), JStr(S_Buy), JStr(S_sell), JStr(S_hold)}

WebhookAlerts ==
  { [NoAlert EXCEPT !.top = "object", !.symbol = s, !.action = a, !.quantity = z,
                    !.secret_key = k] :
      s \in WebhookSymbols, a \in WebhookActions, z \in SizeValues, k \in SecretValues }
  \cup { [NoAlert EXCEPT !.top = "invalid"], [NoAlert EXCEPT !.top = "empty"] }

AppRespondNow(r, l, response) ==
  /\ pc' = [pc EXCEPT ![r] = "done"]
  /\ loc' = [loc EXCEPT ![r] = l]
  /\ resp' = [resp EXCEPT ![r] = response]

\* POST /webhook arrives: tradingview_webhook runs to the login POST or to
\* its response
WebhookReceive(r, A) ==
  /\ program = "app"
  /\ pc[r] = "idle"
  /\ nAlerts < MaxAlerts
  /\ \E a \in A :
       LET p == WebhookLocal(a, app_env.WEBHOOK_SECRET)
           l == [NoLocals EXCEPT !.via = "webhook"]
       IN  /\ alert' = [alert EXCEPT ![r] = a]
           /\ nAlerts' = nAlerts + 1
           /\ IF ~p.go
                THEN AppRespondNow(r, l, p.resp) /\ UNCHANGED << calls, broker >>
              ELSE IF ~AppConfigured(app_env)
                THEN AppRespondNow(r, l, AppAuthFailed) /\ UNCHANGED << calls, broker >>
              ELSE /\ pc' = [pc EXCEPT ![r] = "wlogin"]
                   /\ loc' = [loc EXCEPT ![r] = [l EXCEPT !.loginNo = broker.logins + 1]]
                   /\ calls' = [calls EXCEPT ![r] = Append(@, AppLoginCall)]
                   /\ broker' = [broker EXCEPT !.logins = @ + 1]
                   /\ UNCHANGED resp
  /\ UNCHANGED gvars

\* the login POST is answered: the handler checks the tokens, and
\* place_capital_order runs to the order POST or to its return
WebhookLoginReturns(r, O) ==
  /\ pc[r] = "wlogin"
  /\ \E o \in O :
       LET s == TokensFromLogin(o)
           p == AppPayload(alert[r])
           l == [loc[r] EXCEPT !.login = o, !.session = s, !.direction = p.direction,
                               !.epic = p.epic, !.size = p.size]
           bad == ErrDict(Lit("Invalid signal data format"))
       IN  IF ~s.ok
             THEN AppRespondNow(r, l, AppAuthFailed) /\ UNCHANGED << calls, broker >>
           ELSE IF ~p.ok
             THEN /\ AppRespondNow(r, [l EXCEPT !.result = bad],
                                   AppRespond([success |-> FALSE, result |-> bad]))
                  /\ UNCHANGED << calls, broker >>
           ELSE /\ pc' = [pc EXCEPT ![r] = "worder"]
                /\ loc' = [loc EXCEPT ![r] = l]
                /\ calls' = [calls EXCEPT ![r] = Append(@, AppOrderCall(s, p))]
                /\ broker' = [broker EXCEPT !.orders = @ + 1]
                /\ UNCHANGED resp
  /\ UNCHANGED << gvars, alert, nAlerts >>

\* the order POST is answered: place_capital_order returns, the handler responds
WebhookOrderReturns(r, O) ==
  /\ pc[r] = "worder"
  /\ \E o \in O :
       LET s == AppOrderResult(o)
       IN  AppRespondNow(r, [loc[r] EXCEPT !.order = o, !.result = s.result], AppRespond(s))
  /\ UNCHANGED << gvars, alert, calls, nAlerts, broker >>

(***************************************************************************)
(* Specification: one server, one request in flight at a time              *)
(***************************************************************************)
NoAppEnv ==
  [CAPITAL_API_KEY |-> "", CAPITAL_PASSWORD |-> "", CAPITAL_API_ENDPOINT |-> "",
   WEBHOOK_SECRET |-> << >>]

InitRequests ==
  /\ pc = [r \in Reqs |-> "idle"]
  /\ alert = [r \in Reqs |-> NoAlert]
  /\ loc = [r \in Reqs |-> NoLocals]
  /\ calls = [r \in Reqs |-> << >>]
  /\ resp = [r \in Reqs |-> NoResponse]
  /\ nAlerts = 0
  /\ broker = [logins |-> 0, orders |-> 0]

\* main.py started with any of its three variables set or unset
InitMain ==
  /\ program = "main"
  /\ CAPITAL_EMAIL \in {"", "email"}
  /\ CAPITAL_PASS \in {"", "pass"}
  /\ CAPITAL_API_KEY \in {"", "key"}
  /\ BASE_HEADERS = BaseHeadersOf(CAPITAL_API_KEY)
  /\ TICKER_TO_EPIC = TICKER_TO_EPIC_INIT
  /\ app_env = NoAppEnv

\* app.py started with any of its four variables set or unset
InitApp ==
  /\ program = "app"
  /\ CAPITAL_EMAIL = ""
  /\ CAPITAL_PASS = ""
  /\ CAPITAL_API_KEY = ""
  /\ BASE_HEADERS = BaseHeadersOf("")
  /\ TICKER_TO_EPIC = TICKER_TO_EPIC_INIT
  /\ app_env \in [CAPITAL_API_KEY : {"", "key"}, CAPITAL_PASSWORD : {"", "pass"},
                  CAPITAL_API_ENDPOINT : {"", "url"}, WEBHOOK_SECRET : {<< >>, S_secret}]

Init == (InitMain \/ InitApp) /\ InitRequests

\* one uvicorn event loop: receive_alert blocks it on requests.post, so a
\* request starts only when none is in flight
NoneInFlight == \A q \in Reqs : pc[q] = "idle"

Next ==
  \E r \in Reqs :
    \/ NoneInFlight /\ ReceiveAlert(r, Alerts)
    \/ LoginReturns(r, LoginOutcomes(loc[r].loginNo))
    \/ OrderReturns(r, OrderOutcomes)
    \/ NoneInFlight /\ WebhookReceive(r, WebhookAlerts)
    \/ WebhookLoginReturns(r, LoginOutcomes(loc[r].loginNo))
    \/ WebhookOrderReturns(r, OrderOutcomes)
    \/ Finish(r)

Spec == Init /\ [][Next]_vars

(***************************************************************************)
(* Specification: /trade requests of main.py interleaved at every network  *)
(* call (threads or workers in place of the single event loop), over a     *)
(* reduced set of alerts and broker answers                                *)
(***************************************************************************)
ConcAlerts ==
  { [NoAlert EXCEPT !.top = "object", !.symbol = JStr(S_XAUUSD), !.action = JStr(S_buy)],
    [NoAlert EXCEPT !.top = "object", !.symbol = JStr(S_EurUsd), !.action = JStr(S_SELL),
                    !.size = JNum(Fin(2000))],
    [NoAlert EXCEPT !.top = "object", !.symbol = JStr(S_XAUUSD), !.action = JStr(S_hold)] }

ConcLoginOutcomes(n) ==
  { o \in LoginOutcomes(n) :
      \/ o.kind = "timeout"
      \/ o.kind = "resp" /\ o.status = 401 /\ o.cst = 0 /\ o.xsec = 0 /\ o.body = "nonjson"
      \/ o.kind = "resp" /\ o.status = 200 /\ o.body = "dict_acct" /\ o.xsec # 0
      \/ o.kind = "resp" /\ o.status = 200 /\ o.body = "dict_noacct" /\ o.cst # 0 /\ o.xsec # 0 }

ConcOrderOutcomes ==
  { o \in OrderOutcomes :
      \/ o.kind = "timeout"
      \/ o.kind = "resp" /\ o.status = 200 /\ o.body = B_deal
      \/ o.kind = "resp" /\ o.status = 400 /\ o.body = B_closed }

InitConc == InitMain /\ InitRequests

NextConc ==
  \E r \in Reqs :
    \/ ReceiveAlert(r, ConcAlerts)
    \/ LoginReturns(r, ConcLoginOutcomes(loc[r].loginNo))
    \/ OrderReturns(r, ConcOrderOutcomes)
    \/ Finish(r)

SpecConc == InitConc /\ [][NextConc]_vars

(***************************************************************************)
(* Specification: place_order called directly with any arguments           *)
(***************************************************************************)
DirectDirections == {S_buy, S_SELL, S_hold, << >>}

DirectEpics == {S_GOLD, << >>}

DirectSizes == {Fin(2000), Fin(0), Fin(-1000), NaN}

CallPlaceOrder(r) ==
  /\ program = "main"
  /\ pc[r] = "idle"
  /\ nAlerts < MaxAlerts
  /\ \E d \in DirectDirections, e \in DirectEpics, z \in DirectSizes :
       PlaceOrderCall(r, [NoLocals EXCEPT !.via = "direct", !.direction = d,
                                          !.epic = e, !.size = z])
  /\ nAlerts' = nAlerts + 1
  /\ UNCHANGED << gvars, alert >>

NextPlaceOrder ==
  \E r \in Reqs :
    \/ NoneInFlight /\ CallPlaceOrder(r)
    \/ LoginReturns(r, LoginOutcomes(loc[r].loginNo))
    \/ OrderReturns(r, OrderOutcomes)
    \/ Finish(r)

SpecPlaceOrder == InitConc /\ [][NextPlaceOrder]_vars

(***************************************************************************)
(* Reading a request's state                                               *)
(***************************************************************************)
\* the calls of request r to one endpoint

(***************************************************************************)
(* Specification: valid alerts sent to /trade of a configured main.py, one *)
(* after another or interleaved, every request kept as answered            *)
(***************************************************************************)
RepeatAlerts == { a \in ConcAlerts : ReceiveAlertLocal(a, TICKER_TO_EPIC_INIT).go }

InitRepeat ==
  /\ InitConc
  /\ Configured(CAPITAL_EMAIL, CAPITAL_PASS, CAPITAL_API_KEY)

NextRepeat ==
  \E r \in Reqs :
    \/ ReceiveAlert(r, RepeatAlerts)
    \/ LoginReturns(r, ConcLoginOutcomes(loc[r].loginNo))
    \/ OrderReturns(r, ConcOrderOutcomes)

SpecRepeat == InitRepeat /\ [][NextRepeat]_vars


(***************************************************************************)
(* Specification: the size resolution of receive_alert applied to any size *)
(* field and symbol                                                        *)
(***************************************************************************)
SizingSymbols ==
  {S_XAUUSD, S_xauusd, S_XAGUSD, S_EurUsd, S_BTCUSD, S_NATURALGAS, S_XNGUSD, S_UNKNOWN,
   S_EURUSD \o S_XAUUSD}

\* lines 187 and 204-210 of receive_alert on their own
ResolveSizeCall(r) ==
  /\ program = "main"
  /\ pc[r] = "idle"
  /\ nAlerts < MaxAlerts
  /\ \E s \in SizingSymbols, z \in SizeValues :
       LET a == [NoAlert EXCEPT !.top = "object", !.symbol = JStr(s), !.size = z]
       IN  /\ alert' = [alert EXCEPT ![r] = a]
           /\ loc' = [loc EXCEPT ![r] = [NoLocals EXCEPT !.via = "size",
                                                         !.size = ResolveSize(SizeStr(a), s)]]
  /\ pc' = [pc EXCEPT ![r] = "done"]
  /\ nAlerts' = nAlerts + 1
  /\ UNCHANGED << gvars, calls, resp, broker >>

NextSize ==
  \E r \in Reqs :
    \/ NoneInFlight /\ ResolveSizeCall(r)
    \/ Finish(r)

SpecSize == InitConc /\ [][NextSize]_vars


(***************************************************************************)
(* Specification: /trade requests of main.py, any alert and any broker     *)
(* answer, where every network call returns: requests.post is called with  *)
(* timeout=10 and timeout=15, so a call that gets no answer raises Timeout *)
(***************************************************************************)
NextLive ==
  \E r \in Reqs :
    \/ NoneInFlight /\ ReceiveAlert(r, Alerts)
    \/ LoginReturns(r, LoginOutcomes(loc[r].loginNo))
    \/ OrderReturns(r, OrderOutcomes)
    \/ Finish(r)

CallsReturn ==
  \A r \in Reqs :
    /\ WF_vars(LoginReturns(r, LoginOutcomes(loc[r].loginNo)))
    /\ WF_vars(OrderReturns(r, OrderOutcomes))

SpecLive == InitConc /\ [][NextLive]_vars /\ CallsReturn

CallsTo(r, ep) == { i \in 1..Len(calls[r]) : calls[r][i].ep = ep }

NoCalls(r) == calls[r] = << >>

\* request r runs the /trade handler of main.py and has been answered
TradeDone(r) == program = "main" /\ loc[r].via = "trade" /\ pc[r] = "done"

\* the answer to r's login POST was a 2xx
LoginAnswered2xx(r) == loc[r].login.kind = "resp" /\ loc[r].login.status < 400

TransportError(o) == o.kind \in {"timeout", "connerr"}

\* the response of /trade to a failed get_session_data
AuthFailureResponse ==
  HTTPException(503, Lit("Could not obtain session tokens/accountId"))

(***************************************************************************)
(* Claims                                                                  *)
(***************************************************************************)

\* C1: under any interleaving of /trade requests, every order POST of a
\* request directly follows that request's login POST, whose answer was a 2xx
\* carrying CST, X-SECURITY-TOKEN and currentAccountId; the order's headers
\* carry exactly the two tokens of that answer and no token the broker gave to
\* another request.
C1_OrderCarriesOwnTokens ==
  \A r \in Reqs : \A i \in CallsTo(r, "positions") :
    /\ i > 1
    /\ calls[r][i - 1].ep = "session"
    /\ LoginAnswered2xx(r)
    /\ loc[r].login.cst # 0
    /\ loc[r].login.xsec # 0
    /\ loc[r].login.body = "dict_acct"
    /\ calls[r][i].headers.CST = loc[r].login.cst
    /\ calls[r][i].headers.XSEC = loc[r].login.xsec
    /\ \A q \in Reqs \ {r} :
         /\ calls[r][i].headers.CST \notin {loc[q].login.cst, loc[q].login.xsec}
         /\ calls[r][i].headers.XSEC \notin {loc[q].login.cst, loc[q].login.xsec}

\* two requests have their order POST in flight at once, each after its own login
C1_Witness ==
  \E r \in Reqs, q \in Reqs :
    /\ r # q
    /\ pc[r] = "order"
    /\ pc[q] = "order"
    /\ loc[r].login.cst # loc[q].login.cst

\* the answer to r's login was a 2xx that omits a token the server requires
TokenOmitted(r) ==
  /\ LoginAnswered2xx(r)
  /\ \/ loc[r].login.cst = 0
     \/ loc[r].login.xsec = 0
     \/ program = "main" /\ loc[r].login.body # "dict_acct"

\* C2: when the login answer is a 2xx that omits CST or X-SECURITY-TOKEN (or
\* currentAccountId, for main.py), the request ends with the server's
\* authentication-failure response and has issued no order POST.
C2_MissingTokenNoOrder ==
  \A r \in Reqs :
    TokenOmitted(r) =>
      /\ pc[r] = "done"
      /\ CallsTo(r, "positions") = {}
      /\ CallsTo(r, "positions/otc") = {}
      /\ resp[r] = IF program = "main" THEN AuthFailureResponse ELSE AppAuthFailed

\* scenario D: login answers 200 without the CST header
C2_Witness ==
  \E r \in Reqs :
    /\ program = "main"
    /\ TokenOmitted(r)
    /\ loc[r].login.cst = 0
    /\ loc[r].login.xsec # 0
    /\ loc[r].login.body = "dict_acct"
    /\ resp[r].status = 503

\* the action of an alert is missing or is not "buy" or "sell" in any case
ActionInvalid(a) ==
  LET d == JGet(a.action) IN d.t # "str" \/ NotBuySell(d.s)

ClientError400(r) == resp[r].kind = "HTTPException" /\ resp[r].status = 400

\* C3: a /trade alert whose action is missing or not buy/sell is answered
\* with HTTP 400 and makes no outbound call.
C3_InvalidActionRejected400 ==
  \A r \in Reqs :
    program = "main" /\ alert[r].top = "object" /\ ActionInvalid(alert[r]) =>
      /\ NoCalls(r)
      /\ pc[r] = "done" => ClientError400(r)

\* C4: place_order called with a direction outside {buy, sell} or a size <= 0
\* returns an error and makes no network call.
C4_InvalidArgsNoNetworkCall ==
  \A r \in Reqs :
    /\ loc[r].via = "direct"
    /\ NotBuySell(loc[r].direction) \/ FloatLeZero(loc[r].size)
    => /\ NoCalls(r)
       /\ pc[r] = "done" => loc[r].result.hasError

\* C5: for a /trade alert without a size field, the size of the order is
\* get_trade_size of the alert's symbol, and it is > 0.
C5_OmittedSizeIsSymbolDefault ==
  \A r \in Reqs :
    program = "main" /\ alert[r].top = "object" /\ alert[r].size = JAbsent =>
      \A i \in CallsTo(r, "positions") :
        /\ calls[r][i].size = get_trade_size(alert[r].symbol.s)
        /\ calls[r][i].size.k = "fin"
        /\ calls[r][i].size.m > 0

\* the uppercased symbol has no entry in the table, or a PLACEHOLDER one
SymbolUnmapped(a) ==
  /\ a.symbol.t = "str"
  /\ LET e == TableGet(TICKER_TO_EPIC, Upper(a.symbol.s))
     IN  e = << >> \/ Contains(S_PLACEHOLDER, e)

\* C6: a /trade alert whose uppercased symbol has no usable entry in
\* TICKER_TO_EPIC is answered with HTTP 400 and makes no outbound call; no
\* order POST carries an epic that is not a non-PLACEHOLDER value of the table.
C6_UnmappedSymbolRejected400 ==
  \A r \in Reqs :
    /\ program = "main" /\ alert[r].top = "object" /\ SymbolUnmapped(alert[r]) =>
         /\ NoCalls(r)
         /\ pc[r] = "done" => ClientError400(r)
    /\ \A i \in CallsTo(r, "positions") :
         /\ \E k \in DOMAIN TICKER_TO_EPIC : calls[r][i].epic = Upper(TICKER_TO_EPIC[k])
         /\ ~Contains(S_PLACEHOLDER, calls[r][i].epic)

\* C7: with one of the three credentials unset, a /trade request makes no
\* login POST, and the response to a request that reached place_order differs
\* from the response to a failed login.
C7_MissingConfigReportedDistinctly ==
  \A r \in Reqs :
    /\ program = "main"
    /\ loc[r].via = "trade"
    /\ ~Configured(CAPITAL_EMAIL, CAPITAL_PASS, CAPITAL_API_KEY)
    => /\ CallsTo(r, "session") = {}
       /\ pc[r] = "done" /\ loc[r].result # NoVal => resp[r] # AuthFailureResponse

\* the responses of /trade to an order the broker rejects
OrderRejectionResponses ==
  { TranslateResult(OrderResult(o)) :
      o \in { x \in OrderOutcomes : x.kind = "resp" /\ x.status >= 400 } }

\* C8 as stated: a connection or timeout error at the login POST or at the
\* order POST gets a response that differs from the response to a credential
\* rejection and from every response to a rejected order.
C8_TransportErrorDistinct ==
  \A r \in Reqs :
    TradeDone(r) /\ (TransportError(loc[r].login) \/ TransportError(loc[r].order)) =>
      /\ resp[r] # AuthFailureResponse
      /\ resp[r] \notin OrderRejectionResponses

\* C8 amended: a connection or timeout error at the order POST is answered
\* with status 504 or 502, a credential rejection with 503, a rejected order
\* with 400, 404 or 500; a connection or timeout error at the login POST gets
\* the same 503 response as a credential rejection.
C8_TransportErrorByStatus ==
  \A r \in Reqs :
    TradeDone(r) =>
      /\ TransportError(loc[r].order) => resp[r].status \in {502, 504}
      /\ TransportError(loc[r].login) => resp[r] = AuthFailureResponse
      /\ loc[r].login.kind = "resp" /\ loc[r].login.status >= 400 =>
           resp[r] = AuthFailureResponse
      /\ loc[r].order.kind = "resp" /\ loc[r].order.status >= 400 =>
           resp[r].status \in {400, 404, 500}

\* the order POST timed out and the caller got 504
C8_Witness ==
  \E r \in Reqs :
    /\ TradeDone(r)
    /\ loc[r].order.kind = "timeout"
    /\ resp[r].status = 504

\* C9: when the order POST is answered with a 2xx, the caller gets
\* {"status": "ok", "capital_response": body} with the broker's body as is.
C9_SuccessBodyPassedThrough ==
  \A r \in Reqs :
    TradeDone(r) /\ loc[r].order.kind = "resp" /\ loc[r].order.status < 400 =>
      /\ resp[r].kind = "ok"
      /\ resp[r].detail = AsLeaf(loc[r].order.body)

\* the order POST of r was answered with a 4xx
OrderAnswered4xx(r) ==
  TradeDone(r) /\ loc[r].order.kind = "resp" /\ loc[r].order.status \div 100 = 4

LoginFailed(r) == loc[r].login.kind # "none" /\ ~loc[r].session.ok

OrderFailed(r) ==
  \/ TransportError(loc[r].order)
  \/ loc[r].order.kind = "resp" /\ loc[r].order.status >= 400

ErrorResponse(r) == resp[r].kind \in {"HTTPException", "unhandled"} /\ resp[r].status >= 400

\* C11: a /trade request issues at most one login POST and at most one order
\* POST, the login first; after a failed login or a failed order it issues no
\* further call and ends with an error response.
C11_NoRetry ==
  \A r \in Reqs :
    program = "main" /\ loc[r].via = "trade" =>
      /\ Cardinality(CallsTo(r, "session")) <= 1
      /\ Cardinality(CallsTo(r, "positions")) <= 1
      /\ Len(calls[r]) <= 2
      /\ LoginFailed(r) => pc[r] = "done" /\ Len(calls[r]) = 1 /\ ErrorResponse(r)
      /\ OrderFailed(r) => pc[r] = "done" /\ Len(calls[r]) = 2 /\ ErrorResponse(r)

\* a request whose login was rejected with 401 has ended after its one call
C11_Witness ==
  \E r \in Reqs :
    /\ program = "main"
    /\ loc[r].login.kind = "resp"
    /\ loc[r].login.status = 401
    /\ pc[r] = "done"
    /\ Len(calls[r]) = 1
    /\ resp[r].status = 503

\* the requests received so far, and those whose login gave a session
Received == { r \in Reqs : pc[r] # "idle" }

Granted == { r \in Reqs : loc[r].session.ok }

\* C12: n valid alerts, the same one included, sent to a configured /trade one
\* after another or interleaved give n login POSTs, one per request, and one
\* order POST for each request whose login gave a session: no request is
\* dropped as a duplicate and none goes without a login of its own.
C12_OneLoginOneOrderPerAlert ==
  /\ nAlerts = Cardinality(Received)
  /\ broker.logins = Cardinality(Received)
  /\ broker.orders = Cardinality(Granted)
  /\ \A r \in Received :
       /\ Cardinality(CallsTo(r, "session")) = 1
       /\ \A q \in Received : q # r => loc[q].loginNo # loc[r].loginNo
  /\ \A r \in Granted :
       /\ Cardinality(CallsTo(r, "positions")) = 1
       /\ \A i \in CallsTo(r, "positions") :
            calls[r][i].headers.CST = CstOf(loc[r].loginNo)

\* the same alert was sent twice, at once, and both orders were placed
C12_Witness ==
  \E r, q \in Reqs :
    /\ r # q
    /\ alert[r] = alert[q]
    /\ alert[r] # NoAlert
    /\ pc[r] = "done" /\ pc[q] = "done"
    /\ resp[r].kind = "ok" /\ resp[q].kind = "ok"
    /\ broker.logins = 2
    /\ broker.orders = 2

\* the alert carries a size that float() refuses
SizeUnparsable(a) == a.size.t # "absent" /\ ~JFloat(a.size).ok

\* the symbol and the action of the alert pass the checks of receive_alert
SymbolActionValid(a) ==
  /\ a.top = "object"
  /\ ~ActionInvalid(a)
  /\ a.symbol.t = "str" /\ a.symbol.s # << >>
  /\ ~SymbolUnmapped(a)

\* C13 as stated: a /trade alert whose size cannot be parsed as a number is
\* answered with a 4xx and makes no network call.
C13_UnparsableSizeRejected ==
  \A r \in Reqs :
    program = "main" /\ alert[r].top = "object" /\ SizeUnparsable(alert[r]) =>
      /\ NoCalls(r)
      /\ pc[r] = "done" => resp[r].status \in 400..499

\* C13 amended: a /trade alert whose size cannot be parsed as a number is not
\* rejected for it: with a valid symbol and action its size becomes
\* get_trade_size(symbol), the login POST is made when the credentials are
\* configured, and an order POST carries that size.
C13_UnparsableSizeDefaulted ==
  \A r \in Reqs :
    program = "main" /\ SymbolActionValid(alert[r]) /\ SizeUnparsable(alert[r]) =>
      /\ loc[r].size = get_trade_size(alert[r].symbol.s)
      /\ Configured(CAPITAL_EMAIL, CAPITAL_PASS, CAPITAL_API_KEY) =>
           Cardinality(CallsTo(r, "session")) = 1
      /\ \A i \in CallsTo(r, "positions") :
           calls[r][i].size = get_trade_size(alert[r].symbol.s)

\* the order of an alert with size "abc" for XAUUSD was placed with size 0.02
C13_Witness ==
  \E r \in Reqs :
    /\ program = "main"
    /\ alert[r].size = JStr(S_abc)
    /\ alert[r].symbol = JStr(S_XAUUSD)
    /\ pc[r] = "done"
    /\ resp[r].kind = "ok"
    /\ \E i \in CallsTo(r, "positions") : calls[r][i].size = Fin(20)

\* the defaults the symbols are to get, in thousandths
DefaultThousandths(s) ==
  CASE s \in {S_XAUUSD, S_xauusd, S_EURUSD \o S_XAUUSD} -> 20
    [] s = S_XAGUSD                     -> 10000
    [] s = S_EurUsd                     -> 10000000
    [] s = S_BTCUSD                     -> 1
    [] s \in {S_NATURALGAS, S_XNGUSD}   -> 100000
    [] OTHER                            -> 1000

LoginIncomplete(o) ==
  o.kind = "resp" /\ o.status < 400 /\ (o.cst = 0 \/ o.xsec = 0 \/ o.body # "dict_acct")

\* C15: a /trade request whose login POST is answered with a non-2xx, or
\* with a 2xx lacking a token or the account id, or fails in transport, is
\* answered with HTTP 503, never a 4xx, and places no order.
C15_NoSessionIs503 ==
  \A r \in Reqs :
    /\ TradeDone(r)
    /\ \/ loc[r].login.kind = "resp" /\ loc[r].login.status >= 400
       \/ LoginIncomplete(loc[r].login)
       \/ TransportError(loc[r].login)
    => /\ resp[r].kind = "HTTPException"
       /\ resp[r].status = 503
       /\ CallsTo(r, "positions") = {}

\* a 200 login answer without the CST header was answered with 503
C15_Witness ==
  \E r \in Reqs :
    /\ TradeDone(r)
    /\ loc[r].login.kind = "resp"
    /\ loc[r].login.status = 200
    /\ loc[r].login.cst = 0
    /\ resp[r].status = 503

\* C16: a /webhook alert whose action is neither buy nor sell, in any case,
\* is answered with a 4xx, makes no network call and never places an order.
C16_WebhookInvalidActionRejected ==
  \A r \in Reqs :
    program = "app" /\ alert[r].top = "object" /\ ActionInvalid(alert[r]) =>
      /\ NoCalls(r)
      /\ CallsTo(r, "positions/otc") = {}
      /\ pc[r] = "done" => resp[r].status \in 400..499

\* C17: every order POST of /trade has direction "BUY" or "SELL" and a
\* size that is a number > 0, whatever the alert.
C17_OrderDirectionAndSize ==
  \A r \in Reqs :
    program = "main" /\ loc[r].via = "trade" =>
      \A i \in CallsTo(r, "positions") :
        /\ calls[r][i].direction \in {S_BUY, S_SELL}
        /\ calls[r][i].size.k = "fin"
        /\ calls[r][i].size.m > 0

\* an alert with action "SELL" and size -1 placed a SELL order of positive size
C17_Witness ==
  \E r \in Reqs :
    /\ program = "main"
    /\ alert[r].action = JStr(S_SELL)
    /\ alert[r].size = JNum(Fin(-1000))
    /\ \E i \in CallsTo(r, "positions") :
         calls[r][i].direction = S_SELL /\ calls[r][i].size.m > 0

\* C18: every order POST of /webhook carries a size that is a number > 0,
\* whatever the quantity of the alert.
C18_WebhookSizePositive ==
  \A r \in Reqs :
    program = "app" =>
      \A i \in CallsTo(r, "positions/otc") :
        /\ calls[r][i].size.k = "fin"
        /\ calls[r][i].size.m > 0

\* C19: a /trade alert with a valid action whose symbol equals a key of
\* TICKER_TO_EPIC up to the case of its letters is resolved to that key's
\* entry, whatever the case: the request passes that entry to place_order and
\* an order POST carries the entry uppercased; a PLACEHOLDER entry is refused
\* in every case variant, with no call.
C19_SymbolCaseIndependent ==
  \A r \in Reqs :
    /\ program = "main"
    /\ alert[r].top = "object"
    /\ alert[r].symbol.t = "str"
    /\ ~ActionInvalid(alert[r])
    => \A k \in DOMAIN TICKER_TO_EPIC :
         Lower(k) = Lower(alert[r].symbol.s) =>
           IF Contains(S_PLACEHOLDER, TICKER_TO_EPIC[k])
           THEN NoCalls(r)
           ELSE /\ loc[r].epic = TICKER_TO_EPIC[k]
                /\ \A i \in CallsTo(r, "positions") :
                     calls[r][i].epic = Upper(TICKER_TO_EPIC[k])

\* an alert written "xauusd" had its order placed on the epic of XAUUSD
C19_Witness ==
  \E r \in Reqs :
    /\ program = "main"
    /\ alert[r].symbol = JStr(S_xauusd)
    /\ \E i \in CallsTo(r, "positions") : calls[r][i].epic = S_GOLD

\* C20: no step of any /trade request, in any interleaving, changes
\* TICKER_TO_EPIC, BASE_HEADERS or the three credentials; the tokens of a
\* login never enter BASE_HEADERS.
C20_SharedStateUnchanged ==
  [][ /\ TICKER_TO_EPIC' = TICKER_TO_EPIC
      /\ BASE_HEADERS' = BASE_HEADERS
      /\ CAPITAL_EMAIL' = CAPITAL_EMAIL
      /\ CAPITAL_PASS' = CAPITAL_PASS
      /\ CAPITAL_API_KEY' = CAPITAL_API_KEY
      /\ BASE_HEADERS'.CST = 0
      /\ BASE_HEADERS'.XSEC = 0 ]_vars

\* two requests hold orders with their own tokens while BASE_HEADERS and the
\* table are as at start
C20_Witness ==
  \E r, q \in Reqs :
    /\ r # q
    /\ pc[r] = "order" /\ pc[q] = "order"
    /\ \E i \in CallsTo(r, "positions") : calls[r][i].headers.CST # 0
    /\ \E i \in CallsTo(q, "positions") : calls[q][i].headers.CST # 0
    /\ BASE_HEADERS = BaseHeadersOf(CAPITAL_API_KEY)
    /\ TICKER_TO_EPIC = TICKER_TO_EPIC_INIT

\* the alert's secret_key differs from the configured WEBHOOK_SECRET
SecretWrong(a) ==
  /\ app_env.WEBHOOK_SECRET # << >>
  /\ a.top = "object"
  /\ JGet(a.secret_key) # JStr(app_env.WEBHOOK_SECRET)

\* C21: with WEBHOOK_SECRET configured, a /webhook request whose secret_key
\* differs from it is answered with HTTP 403 and makes neither the login POST
\* nor the order POST.
C21_WrongSecretForbidden ==
  \A r \in Reqs :
    program = "app" /\ SecretWrong(alert[r]) =>
      /\ NoCalls(r)
      /\ pc[r] = "done" => resp[r].status = 403

\* request r was answered with a success: {"status": "ok"} of /trade, or
\* status "success" of /webhook
SuccessResponse(r) == resp[r].kind \in {"ok", "success"}

\* C22: a request is answered with a success only when it issued an order
\* POST, after its login POST, and the broker answered that order POST with a
\* 2xx: never after a failed login, a local rejection, a transport error or
\* a non-2xx answer to the order.
C22_SuccessOnlyAfter2xxOrder ==
  \A r \in Reqs :
    SuccessResponse(r) =>
      /\ Cardinality(CallsTo(r, "positions") \cup CallsTo(r, "positions/otc")) = 1
      /\ loc[r].session.ok
      /\ loc[r].order.kind = "resp"
      /\ loc[r].order.status \in 200..299
      /\ resp[r].status = 200

\* /trade answered ok after its order POST was answered with 200
C22_Witness ==
  \E r \in Reqs :
    /\ program = "main"
    /\ resp[r].kind = "ok"
    /\ loc[r].order.status = 200
    /\ Len(calls[r]) = 2

\* the caller of r has a success payload or an HTTP error
Answered(r) ==
  \/ resp[r].kind = "ok" /\ resp[r].status = 200
  \/ resp[r].kind \in {"HTTPException", "unhandled"} /\ resp[r].status \in 400..599

=============================================================================
